---- MODULE Spec2Model ----
(***************************************************************************)
(* The POST /api/generate handlers of the three backend variants of the    *)
(* image-map-generator repository:                                         *)
(*   "noop"   src/backend/test-server.js lines 1-178   (simple-server.js)  *)
(*   "single" src/backend/test-server.js lines 179-444 (Gemini, one model) *)
(*   "multi"  src/unnamed/part_000                     (server.js)         *)
(* their GET /health, and the page that calls them,                        *)
(*   src/frontend/src/pages/MapboxAIGenerator/MapboxAIGenerator.tsx        *)
(* (lines 1-424; lines 425-790 hold an earlier revision with the same      *)
(* generateImage).                                                         *)
(*                                                                         *)
(* JavaScript values are records [t, s, n]: t is the typeof tag, s the     *)
(* leading characters of a string and n either the value of a number or,   *)
(* for a string, the count of further base64 filler characters that follow *)
(* s (a 15 MB image is not spelled out character by character).            *)
(* Numbers are integers.  Non-ASCII characters of the source's string      *)
(* literals are written in ASCII: the warning sign as "(!)", the degree    *)
(* sign as "deg".                                                          *)
(***************************************************************************)
EXTENDS Integers, Sequences, FiniteSets, TLC

VARIABLES variant, req, server, page

vars == <<variant, req, server, page>>

-----------------------------------------------------------------------------
(* Bounds *)

\* number of requests the server handles at the same time
MaxReqs == 1

\* number of requests in flight together, where requests are interleaved
MaxConc == 2

\* number of GET /health requests
MaxHealth == 2

-----------------------------------------------------------------------------
(* JavaScript values *)

Undef == [t |-> "undefined", s |-> "", n |-> 0]

Num(k) == [t |-> "number", s |-> "", n |-> k]

Str(chars) == [t |-> "string", s |-> chars, n |-> 0]

LongStr(chars, pad) == [t |-> "string", s |-> chars, n |-> pad]

\* null
Null == [t |-> "null", s |-> "", n |-> 0]

Bool(b) == [t |-> "boolean", s |-> "", n |-> IF b THEN 1 ELSE 0]

\* the object { message, status, details } of the single-provider failure response
ErrObj(msg) == [t |-> "object", s |-> msg, n |-> 0]

\* String.prototype.length
Length(v) == Len(v.s) + v.n

\* ToBoolean, as applied by the ! operator
Truthy(v) ==
  CASE v.t = "undefined" -> FALSE
    [] v.t = "null"      -> FALSE
    [] v.t = "number"    -> v.n # 0
    [] v.t = "string"    -> Length(v) > 0
    [] v.t = "boolean"   -> v.n = 1
    [] OTHER             -> TRUE

\* the location object of a request body, or undefined when the body has none
NoLocation == [t |-> "undefined", lat |-> Undef, lng |-> Undef]

Loc(a, b) == [t |-> "object", lat |-> a, lng |-> b]

DigitChars == <<"0", "1", "2", "3", "4", "5", "6", "7", "8", "9">>

RECURSIVE NatToString(_)
NatToString(k) ==
  IF k < 10 THEN DigitChars[k + 1]
  ELSE NatToString(k \div 10) \o DigitChars[(k % 10) + 1]

\* Number::toString of an integer
NumToString(k) == IF k < 0 THEN "-" \o NatToString(-k) ELSE NatToString(k)

\* ToString, as applied by a template literal's ${...}
ToStringJS(v) ==
  CASE v.t = "undefined" -> "undefined"
    [] v.t = "null"      -> "null"
    [] v.t = "number"    -> NumToString(v.n)
    [] v.t = "boolean"   -> IF v.n = 1 THEN "true" ELSE "false"
    [] v.t = "object"    -> "[object Object]"
    [] OTHER             -> v.s

\* `${head}${v}` for a head without filler
TemplateConcat(head, v) ==
  LongStr(head \o ToStringJS(v), IF v.t = "string" THEN v.n ELSE 0)

\* needle occurs in hay
Contains(hay, needle) ==
  \E i \in 1..(Len(hay) - Len(needle) + 1) :
    SubSeq(hay, i, i + Len(needle) - 1) = needle

StartsWith(hay, needle) ==
  /\ Len(needle) <= Len(hay)
  /\ SubSeq(hay, 1, Len(needle)) = needle

-----------------------------------------------------------------------------
(* The size estimate *)

SizeLimitMB == 15

BytesPerMB == 1024 * 1024

\* (imageData.length * 0.75 / (1024 * 1024)).toFixed(2): the quotient is
\* 75 * len / 2^20 hundredths of a MB, exactly representable as a double,
\* and toFixed rounds it to the nearest hundredth, a tie going up.
SizeHundredths(len) == (75 * len + (BytesPerMB \div 2)) \div BytesPerMB

\* Number.prototype.toFixed(2) of h hundredths, h >= 0
Fixed2(h) ==
  NatToString(h \div 100) \o "." \o DigitChars[((h \div 10) % 10) + 1]
                                 \o DigitChars[(h % 10) + 1]

SizeInMB(imageData) == Fixed2(SizeHundredths(Length(imageData)))

DigitOf(c) == CHOOSE d \in 0..9 : DigitChars[d + 1] = c

RECURSIVE DigitsToNat(_)
DigitsToNat(str) ==
  IF Len(str) = 0 THEN 0
  ELSE 10 * DigitsToNat(SubSeq(str, 1, Len(str) - 1))
         + DigitOf(SubSeq(str, Len(str), Len(str)))

IsDigits(str) ==
  /\ Len(str) > 0
  /\ \A i \in 1..Len(str) : \E d \in 1..10 : DigitChars[d] = SubSeq(str, i, i)

\* ToNumber of a string "<digits>.<2 digits>", in hundredths
StringToHundredths(str) ==
  100 * DigitsToNat(SubSeq(str, 1, Len(str) - 3))
    + DigitsToNat(SubSeq(str, Len(str) - 1, Len(str)))

\* the comparison as sizeInMB >= 15
TooLargeOrEqual(sizeInMB) == StringToHundredths(sizeInMB) >= SizeLimitMB * 100

\* sizeInMB > 15: the string is converted to a number and compared
TooLarge(sizeInMB) == StringToHundredths(sizeInMB) > SizeLimitMB * 100

-----------------------------------------------------------------------------
(* Request bodies, backend outcomes and responses *)

DataUrlPrefix == "data:image/png;base64,"

PngHead == "iVBORw0KGgo"

\* the longest imageData whose estimate is at most SizeLimitMB:
\* len * 0.75 <= 15 * 1024 * 1024
LimitLen == (4 * SizeLimitMB * BytesPerMB) \div 3

\* the shortest imageData whose estimate, rounded to hundredths of a MB,
\* is above SizeLimitMB
RoundedOverLen == ((2 * SizeLimitMB * 100 + 1) * (BytesPerMB \div 2) + 74) \div 75

Image(len) == LongStr(PngHead, len - Len(PngHead))

ImageDatas ==
  { Undef, Str(""), Str(PngHead),
    Image(LimitLen), Image(LimitLen + 1),
    Image(RoundedOverLen - 1), Image(RoundedOverLen) }

Locations ==
  { NoLocation,
    Loc(Undef, Undef),
    Loc(Num(21), Undef),
    Loc(Num(0), Num(105)),
    Loc(Num(21), Num(105)),
    Loc(Str("21.0278"), Str("105.8342")) }

Camera(p, b, z) == [pitch |-> p, bearing |-> b, zoom |-> z]

NoCamera == Camera(Undef, Undef, Undef)

DefaultCamera == Camera(Num(60), Num(0), Num(15))

Cameras ==
  { DefaultCamera,
    Camera(Str("60"), Str("0"), Str("15")),
    Camera(Num(85), Num(330), Undef) }

Body(img, cam, loc) ==
  [imageData |-> img, pitch |-> cam.pitch, bearing |-> cam.bearing,
   zoom |-> cam.zoom, location |-> loc]

\* every image with every location, and every camera with every location
Bodies ==
  { Body(img, DefaultCamera, loc) : img \in ImageDatas, loc \in Locations }
    \cup { Body(Str(PngHead), cam, loc) : cam \in Cameras, loc \in Locations }

EmptyBody == Body(Undef, NoCamera, NoLocation)

\* what model.generateContent does: it resolves with a response whose text() is
\* `text`, rejects with an error whose message is `text`, or resolves with
\* no response
Outcome(kind, text) == [kind |-> kind, text |-> text]

NoOutcome == Outcome("none", "")

Outcomes ==
  { Outcome("text", "A photorealistic city block."),
    Outcome("text", ""),
    Outcome("throw", "fetch failed"),
    Outcome("noresponse", "") }

\* the JSON of a response; a field that is undefined is not in the JSON.
\* metadata.timestamp, the 400's `received` and the 500's stack are left out.
EmptyResponse ==
  [status |-> 0, success |-> Undef, image |-> Undef, description |-> Undef,
   error |-> Undef, size |-> Undef, limit |-> Undef,
   location |-> NoLocation, camera |-> NoCamera, imageSize |-> Undef]

BadRequest(msg) == [EmptyResponse EXCEPT !.status = 400, !.error = Str(msg)]

\* the catch answering res.json(...) without res.status(500)
ServerErrorWithoutStatus(msg, fallback) ==
  [EmptyResponse EXCEPT !.status = 200,
                        !.error = IF Len(msg) > 0 THEN Str(msg) ELSE Str(fallback)]

\* error.message || fallback
ServerError(msg, fallback) ==
  [EmptyResponse EXCEPT !.status = 500,
                        !.error = IF Len(msg) > 0 THEN Str(msg) ELSE Str(fallback)]

\* the state of one request: where its handler is, what it has done
ReqState(pc, b, calls, sent, resp, o) ==
  [pc |-> pc, body |-> b, calls |-> calls, sent |-> sent, resp |-> resp, outcome |-> o]

IdleReq == ReqState("idle", EmptyBody, 0, 0, EmptyResponse, NoOutcome)

Responded(b, calls, resp, o) == ReqState("responded", b, calls, 1, resp, o)

Reqs == 1..MaxReqs

-----------------------------------------------------------------------------
(* The checks *)

\* the image check as `imageData === undefined`: an empty string gets past it
ImageMissingUndefinedOnly(imageData) == imageData.t = "undefined"

\* if (!imageData)
ImageMissing(imageData) == ~Truthy(imageData)

\* if (!location || typeof location.lat === 'undefined'
\*               || typeof location.lng === 'undefined')
NoopLocationInvalid(location) ==
  \/ location.t = "undefined"
  \/ location.lat.t = "undefined"
  \/ location.lng.t = "undefined"

\* if (!location || !location.lat || !location.lng)
SingleLocationInvalid(location) ==
  \/ location.t = "undefined"
  \/ ~Truthy(location.lat)
  \/ ~Truthy(location.lng)

\* the no-op variant's checks in the order of its code: the first that fails
NoopChecks(b) ==
  IF ImageMissing(b.imageData) THEN "image"
  ELSE IF NoopLocationInvalid(b.location) THEN "location"
  ELSE "ok"

\* the single-provider variant's checks with the size check moved before the
\* location check
SingleChecksSizeFirst(b) ==
  IF ImageMissing(b.imageData) THEN "image"
  ELSE IF TooLarge(SizeInMB(b.imageData)) THEN "size"
  ELSE IF SingleLocationInvalid(b.location) THEN "location"
  ELSE "ok"

\* the single-provider variant's checks in the order of its code
SingleChecks(b) ==
  IF ImageMissing(b.imageData) THEN "image"
  ELSE IF SingleLocationInvalid(b.location) THEN "location"
  ELSE IF TooLarge(SizeInMB(b.imageData)) THEN "size"
  ELSE "ok"

\* the multi-provider variant checks imageData only; reading location.lat of
\* an undefined location then throws a TypeError
MultiChecks(b) ==
  IF ImageMissing(b.imageData) THEN "image"
  ELSE IF b.location.t = "undefined" THEN "throw"
  ELSE "ok"

NoImageError == "No image data provided"

InvalidLocationError == "Invalid location data"

TooLargeError == "Image too large. Please zoom out or reduce resolution."

SizeRejection(b) ==
  [BadRequest(TooLargeError) EXCEPT
     !.size  = Str(SizeInMB(b.imageData) \o " MB"),
     !.limit = Str("15 MB")]

-----------------------------------------------------------------------------
(* The 200 responses *)

\* x > k for a number k
GreaterThan(x, k) ==
  CASE x.t = "number" -> x.n > k
    [] x.t = "string" ->
         /\ \A i \in 1..Len(x.s) : \E d \in 1..10 : DigitChars[d] = SubSeq(x.s, i, i)
         /\ DigitsToNat(x.s) > k
    [] OTHER -> FALSE

\* Number.prototype.toFixed(4) of an integer
Fixed4(k) == NumToString(k) \o ".0000"

\* the descriptions array of the no-op variant (location.lat and
\* location.lng are numbers here)
NoopDescriptions(b) ==
  << "Captured stunning aerial view of urban landscape at "
       \o Fixed4(b.location.lat.n) \o "degN, " \o Fixed4(b.location.lng.n) \o "degE",
     "Beautiful "
       \o (IF GreaterThan(b.pitch, 60) THEN "bird's eye" ELSE "street-level")
       \o " perspective of the cityscape",
     "Map view rendered with " \o ToStringJS(b.bearing)
       \o "deg rotation, showing intricate urban details",
     "High-definition capture at zoom level " \o ToStringJS(b.zoom)
       \o ", revealing architectural patterns",
     "Photographic simulation of urban environment with " \o ToStringJS(b.pitch)
       \o "deg pitch angle" >>

NoopNote ==
  "\n\n(!) Note: This is the original map image. To get AI-generated 3D visualization, you need to configure Gemini API or use another AI service."

Metadata(resp, b) ==
  [resp EXCEPT !.location = b.location,
               !.camera = Camera(b.pitch, b.bearing, b.zoom)]

\* the no-op variant's response object
NoopResponse(b, k) ==
  [Metadata(EmptyResponse, b) EXCEPT
     !.status = 200,
     !.success = Bool(TRUE),
     !.image = TemplateConcat(DataUrlPrefix, b.imageData),
     !.description = Str(NoopDescriptions(b)[k] \o NoopNote),
     !.imageSize = Str(SizeInMB(b.imageData) \o " MB")]

\* the no-op variant after its delay: building the descriptions calls
\* toFixed on location.lat and location.lng, a TypeError unless both are
\* numbers, which its catch answers with a 500
NoopFinish(b, k) ==
  IF b.location.lat.t # "number"
    THEN ServerError("location.lat.toFixed is not a function", "Failed to process request")
  ELSE IF b.location.lng.t # "number"
    THEN ServerError("location.lng.toFixed is not a function", "Failed to process request")
  ELSE NoopResponse(b, k)

\* res.json({ success: true, ... }) of the two provider variants
SuccessResponse(b, text) ==
  [Metadata(EmptyResponse, b) EXCEPT
     !.status = 200,
     !.success = Bool(TRUE),
     !.image = TemplateConcat(DataUrlPrefix, b.imageData),
     !.description = Str(text)]

\* the single-provider variant's catch (geminiError)
FailureResponse(b, msg) ==
  [Metadata(EmptyResponse, b) EXCEPT
     !.status = 200,
     !.success = Bool(FALSE),
     !.image = TemplateConcat(DataUrlPrefix, b.imageData),
     !.description =
        Str("(!) AI generation failed: " \o msg \o "\n\nReturning original map image."),
     !.error = ErrObj(msg)]

NoResponseError == "No response from Gemini API"

\* the single-provider variant from the settling of generateContent on
SingleFinish(b, o) ==
  CASE o.kind = "text"       ->
         [SuccessResponse(b, o.text) EXCEPT !.imageSize = Str(SizeInMB(b.imageData) \o " MB")]
    [] o.kind = "noresponse" -> FailureResponse(b, NoResponseError)
    [] OTHER                 -> FailureResponse(b, o.text)

\* the multi-provider variant from the settling of generateContent on: it
\* has one try/catch, whose catch answers 500
MultiFinish(b, o) ==
  CASE o.kind = "text"       -> SuccessResponse(b, o.text)
    [] o.kind = "noresponse" ->
         ServerError("Cannot read properties of undefined (reading 'response')",
                     "Failed to generate image")
    [] OTHER                 -> ServerError(o.text, "Failed to generate image")

-----------------------------------------------------------------------------
(* The handlers *)

Free(r) == req[r].pc \in {"idle", "responded"}

\* no-op variant, from the request to `await new Promise(... setTimeout ...)`
NoopReceived(b) ==
  CASE NoopChecks(b) = "image" ->
         Responded(b, 0, BadRequest(NoImageError), NoOutcome)
    [] NoopChecks(b) = "location" ->
         Responded(b, 0, BadRequest(InvalidLocationError), NoOutcome)
    [] OTHER ->
         ReqState("delay", b, 0, 0, EmptyResponse, NoOutcome)

NoopPost(r) ==
  /\ variant = "noop"
  /\ Free(r)
  /\ \E b \in Bodies : req' = [req EXCEPT ![r] = NoopReceived(b)]
  /\ UNCHANGED <<variant, server, page>>

\* no-op variant, from the end of the delay to the response; k is
\* Math.floor(Math.random() * descriptions.length) + 1
NoopTimeout(r) ==
  /\ variant = "noop"
  /\ req[r].pc = "delay"
  /\ \E k \in 1..5 :
       req' = [req EXCEPT ![r] =
         Responded(req[r].body, req[r].calls, NoopFinish(req[r].body, k), NoOutcome)]
  /\ UNCHANGED <<variant, server, page>>

\* the single-provider variant calling generateContent before its size check
SinglePostCallsFirst(r) ==
  /\ variant = "single"
  /\ Free(r)
  /\ \E b \in Bodies :
       req' = [req EXCEPT ![r] =
         CASE SingleChecks(b) = "image" ->
                Responded(b, 0, BadRequest(NoImageError), NoOutcome)
           [] SingleChecks(b) = "location" ->
                Responded(b, 0, BadRequest(InvalidLocationError), NoOutcome)
           [] SingleChecks(b) = "size" ->
                Responded(b, 1, SizeRejection(b), NoOutcome)
           [] OTHER ->
                ReqState("awaiting", b, 1, 0, EmptyResponse, NoOutcome)]
  /\ UNCHANGED <<variant, server, page>>

\* single-provider variant, from the request to `await model.generateContent`
SingleReceived(b) ==
  CASE SingleChecks(b) = "image" ->
         Responded(b, 0, BadRequest(NoImageError), NoOutcome)
    [] SingleChecks(b) = "location" ->
         Responded(b, 0, BadRequest(InvalidLocationError), NoOutcome)
    [] SingleChecks(b) = "size" ->
         Responded(b, 0, SizeRejection(b), NoOutcome)
    [] OTHER ->
         ReqState("awaiting", b, 1, 0, EmptyResponse, NoOutcome)

SinglePost(r) ==
  /\ variant = "single"
  /\ Free(r)
  /\ \E b \in Bodies : req' = [req EXCEPT ![r] = SingleReceived(b)]
  /\ UNCHANGED <<variant, server, page>>

\* the single-provider variant calling generateContent again when it rejects
SingleSettleRetry(r) ==
  /\ variant = "single"
  /\ req[r].pc = "awaiting"
  /\ \E o \in Outcomes :
       req' = [req EXCEPT ![r] =
         IF o.kind = "throw"
           THEN ReqState("awaiting", req[r].body, req[r].calls + 1, 0, EmptyResponse, NoOutcome)
           ELSE Responded(req[r].body, req[r].calls, SingleFinish(req[r].body, o), o)]
  /\ UNCHANGED <<variant, server, page>>

\* the single-provider variant keeping the request's fields in variables of
\* the module, which every request overwrites: the response is built from
\* the fields of whichever request wrote last
SingleSettleSharedBody(r) ==
  /\ variant = "single"
  /\ req[r].pc = "awaiting"
  /\ \E o \in Outcomes, s \in DOMAIN req :
       /\ req[s].pc # "idle"
       /\ req' = [req EXCEPT ![r] =
            Responded(req[r].body, req[r].calls, SingleFinish(req[s].body, o), o)]
  /\ UNCHANGED <<variant, server, page>>

\* the single-provider variant returning without an answer when generateContent
\* resolves with no response
SingleSettleNoAnswer(r) ==
  /\ variant = "single"
  /\ req[r].pc = "awaiting"
  /\ \E o \in Outcomes :
       req' = [req EXCEPT ![r] =
         IF o.kind = "noresponse"
           THEN ReqState("returned", req[r].body, req[r].calls, 0, EmptyResponse, o)
           ELSE Responded(req[r].body, req[r].calls, SingleFinish(req[r].body, o), o)]
  /\ UNCHANGED <<variant, server, page>>

\* single-provider variant, from the settling of generateContent to the response
SingleSettle(r) ==
  /\ variant = "single"
  /\ req[r].pc = "awaiting"
  /\ \E o \in Outcomes :
       req' = [req EXCEPT ![r] =
         Responded(req[r].body, req[r].calls, SingleFinish(req[r].body, o), o)]
  /\ UNCHANGED <<variant, server, page>>

\* multi-provider variant, from the request to `await model.generateContent`
MultiReceived(b) ==
  CASE MultiChecks(b) = "image" ->
         Responded(b, 0, BadRequest(NoImageError), NoOutcome)
    [] MultiChecks(b) = "throw" ->
         Responded(b, 0,
           ServerError("Cannot read properties of undefined (reading 'lat')",
                       "Failed to generate image"),
           NoOutcome)
    [] OTHER ->
         ReqState("awaiting", b, 1, 0, EmptyResponse, NoOutcome)

MultiPost(r) ==
  /\ variant = "multi"
  /\ Free(r)
  /\ \E b \in Bodies : req' = [req EXCEPT ![r] = MultiReceived(b)]
  /\ UNCHANGED <<variant, server, page>>

\* multi-provider variant, from the settling of generateContent to the response
MultiSettle(r) ==
  /\ variant = "multi"
  /\ req[r].pc = "awaiting"
  /\ \E o \in Outcomes :
       req' = [req EXCEPT ![r] =
         Responded(req[r].body, req[r].calls, MultiFinish(req[r].body, o), o)]
  /\ UNCHANGED <<variant, server, page>>

-----------------------------------------------------------------------------
(* GET /health *)

\* the environment of the process and what /health has answered so far:
\* whether GEMINI_API_KEY is set, the last /health response, their number
ServerState(key, health, n) == [apiKey |-> key, health |-> health, healthCalls |-> n]

NoHealth == [status |-> 0, state |-> "", geminiConfigured |-> Undef]

\* /health answering 503 when the key is not configured
HealthResponseNeedsKey(v, key) ==
  [status |-> IF v = "single" /\ ~key THEN 503 ELSE 200,
   state |-> IF v = "single" /\ ~key THEN "error" ELSE "ok",
   geminiConfigured |-> IF v = "single" THEN Bool(key) ELSE Undef]

\* res.json({ status: 'ok', ..., geminiConfigured: !!process.env.GEMINI_API_KEY })
\* (the message, version, endpoints and timestamp fields are left out)
HealthResponse(v, key) ==
  [status |-> 200, state |-> "ok",
   geminiConfigured |-> IF v = "single" THEN Bool(key) ELSE Undef]

Health ==
  /\ server.healthCalls < MaxHealth
  /\ server' = ServerState(server.apiKey, HealthResponse(variant, server.apiKey),
                           server.healthCalls + 1)
  /\ UNCHANGED <<variant, req, page>>

-----------------------------------------------------------------------------
(* The page: MapboxAIGenerator.tsx *)

\* Number(v) for a number, or for a string "<digits>" or "<digits>.<zeros>"
\* with an optional sign; any other value converts to NaN
NaN == [t |-> "number", s |-> "NaN", n |-> 0]

IsZeros(str) == \A i \in 1..Len(str) : SubSeq(str, i, i) = "0"

UnsignedToNumber(str) ==
  IF IsDigits(str) THEN Num(DigitsToNat(str))
  ELSE IF \E i \in 2..(Len(str) - 1) :
            /\ SubSeq(str, i, i) = "."
            /\ IsDigits(SubSeq(str, 1, i - 1))
            /\ IsZeros(SubSeq(str, i + 1, Len(str)))
    THEN Num(DigitsToNat(SubSeq(str, 1,
           (CHOOSE i \in 2..(Len(str) - 1) : SubSeq(str, i, i) = ".") - 1)))
  ELSE NaN

NumberJS(v) ==
  CASE v.t = "number" -> v
    [] v.t = "string" /\ v.n = 0 /\ Len(v.s) > 1 /\ SubSeq(v.s, 1, 1) = "-" ->
         IF UnsignedToNumber(SubSeq(v.s, 2, Len(v.s))) = NaN THEN NaN
         ELSE Num(0 - UnsignedToNumber(SubSeq(v.s, 2, Len(v.s))).n)
    [] v.t = "string" /\ v.n = 0 -> UnsignedToNumber(v.s)
    [] OTHER -> NaN

\* toFixed(0) and toFixed(2) of a whole number
Fixed0(k) == NumToString(k)

Fixed2Whole(k) == NumToString(k) \o ".00"

\* what the map reports after a move: getCenter(), getZoom(), getPitch(),
\* getBearing(), in whole units
MapView(lat, lng, zoom, pitch, bearing) ==
  [lat |-> lat, lng |-> lng, zoom |-> zoom, pitch |-> pitch, bearing |-> bearing]

MapViews == {MapView(21, 105, 15, 60, 0), MapView(22, 106, 16, 45, 30)}

\* canvas.toDataURL('image/png'): a data URL, of a small and of a large canvas
Captures ==
  {LongStr(DataUrlPrefix \o PngHead, 0), LongStr(DataUrlPrefix \o PngHead, LimitLen)}

\* useState(...) of the component, map.current, and the position of
\* generateImage with its locals mapImage, the body it sent and the response
PageState(lng, lat, zoom, pitch, bearing, loading, generatedImage, mapboxLoaded, error, map, pc, mapImage, body, response) ==
  [lng |-> lng, lat |-> lat, zoom |-> zoom, pitch |-> pitch, bearing |-> bearing,
   loading |-> loading, generatedImage |-> generatedImage,
   mapboxLoaded |-> mapboxLoaded, error |-> error, map |-> map,
   pc |-> pc, mapImage |-> mapImage, body |-> body, response |-> response]

\* the last call adjustCamera made on the map: the button, the displayed
\* value the handler read, and the argument it passed
NoRequest == [type |-> "", from |-> Undef, value |-> Undef]

MapRequest(type, from, value) == [type |-> type, from |-> from, value |-> value]

\* what the state of the component does not hold: the calls of generateImage
\* that have not returned, the branch the last one ended in, the number of
\* `new mapboxgl.Map`, and the last call adjustCamera made on the map
PageHistory(running, outcome, mapsCreated, requested) ==
  [running |-> running, outcome |-> outcome, mapsCreated |-> mapsCreated,
   requested |-> requested]

\* useState(false) of openPreview
PageView(openPreview) == [openPreview |-> openPreview]

\* the initial coordinates 105.8342 and 21.0278 in whole degrees
InitialPage ==
  PageState(Num(105), Num(21), Num(15), Num(60), Num(0), FALSE, Null, FALSE,
            Null, FALSE, "idle", Null, EmptyBody, EmptyResponse)
    @@ PageHistory(0, "none", 0, NoRequest)
    @@ PageView(FALSE)

\* script.onload = () => setMapboxLoaded(true)
ScriptLoaded ==
  /\ ~page.mapboxLoaded
  /\ page' = [page EXCEPT !.mapboxLoaded = TRUE]
  /\ UNCHANGED <<variant, req, server>>

\* the effect creating a map whenever the library is loaded, without looking
\* at map.current
InitMapEffectNoRefCheck ==
  /\ page.mapboxLoaded
  /\ page' = [page EXCEPT !.map = TRUE, !.mapsCreated = @ + 1]
  /\ UNCHANGED <<variant, req, server>>

\* the effect that creates the map
InitMapEffect ==
  /\ ~(~page.mapboxLoaded \/ page.map)
  /\ page' = [page EXCEPT !.map = TRUE, !.mapsCreated = @ + 1]
  /\ UNCHANGED <<variant, req, server>>

\* map.current.on('move', ...)
MapMove ==
  /\ page.map
  /\ \E v \in MapViews :
       page' = [page EXCEPT !.lng = Str(Fixed4(v.lng)),
                            !.lat = Str(Fixed4(v.lat)),
                            !.zoom = Str(Fixed2Whole(v.zoom)),
                            !.pitch = Str(Fixed0(v.pitch)),
                            !.bearing = Str(Fixed0(v.bearing))]
  /\ UNCHANGED <<variant, req, server>>

\* x + k and x - k of JavaScript for a number k: + concatenates when x is a
\* string, - converts x to a number
PlusJS(x, k) ==
  IF x.t = "string" THEN Str(x.s \o NumToString(k)) ELSE Num(NumberJS(x).n + k)

MinusJS(x, k) == Num(NumberJS(x).n - k)

\* Math.min(k, x) and Math.max(k, x): both arguments are converted to numbers
MathMin(k, x) == IF NumberJS(x).n < k THEN NumberJS(x) ELSE Num(k)

MathMax(k, x) == IF NumberJS(x).n > k THEN NumberJS(x) ELSE Num(k)

MaxPitch == 85

PitchStep == 10

BearingStep == 30

\* the argument of 'pitch-up' without Math.min
PitchUpUnclamped(pitch) == PlusJS(pitch, PitchStep)

\* the arguments adjustCamera computes from the displayed pitch and bearing
PitchUp(pitch) == MathMin(MaxPitch, PlusJS(pitch, PitchStep))

PitchDown(pitch) == MathMax(0, MinusJS(pitch, PitchStep))

RotateLeft(bearing) == MinusJS(bearing, BearingStep)

RotateRight(bearing) == PlusJS(bearing, BearingStep)

CameraButtons == {"pitch-up", "pitch-down", "rotate-left", "rotate-right", "reset"}

\* what the map makes of the argument (mapbox-gl): the pitch is kept within
\* 0..85 and the bearing is wrapped into (-180, 180]
MapPitch(x) == MathMin(MaxPitch, MathMax(0, x)).n

MapBearing(x) ==
  IF (NumberJS(x).n + 180) % 360 = 0 THEN 180
  ELSE ((NumberJS(x).n + 180) % 360) - 180

\* the move handler run for a map showing the displayed centre and zoom
\* with the given pitch and bearing
Moved(p, pitch, bearing) ==
  [p EXCEPT !.lng = Str(Fixed4(NumberJS(p.lng).n)),
            !.lat = Str(Fixed4(NumberJS(p.lat).n)),
            !.zoom = Str(Fixed2Whole(NumberJS(p.zoom).n)),
            !.pitch = Str(Fixed0(pitch)),
            !.bearing = Str(Fixed0(bearing))]

\* a click on a camera button: adjustCamera(type), with the 'move' event the
\* call on the map fires ('reset': the move that ends the flight)
AdjustCamera(type) ==
  /\ IF ~page.map THEN page' = page
     ELSE CASE type = "pitch-up" ->
                 page' = [Moved(page, MapPitch(PitchUp(page.pitch)),
                                NumberJS(page.bearing).n)
                            EXCEPT !.requested =
                              MapRequest(type, page.pitch, PitchUp(page.pitch))]
            [] type = "pitch-down" ->
                 page' = [Moved(page, MapPitch(PitchDown(page.pitch)),
                                NumberJS(page.bearing).n)
                            EXCEPT !.requested =
                              MapRequest(type, page.pitch, PitchDown(page.pitch))]
            [] type = "rotate-left" ->
                 page' = [Moved(page, NumberJS(page.pitch).n,
                                MapBearing(RotateLeft(page.bearing)))
                            EXCEPT !.requested =
                              MapRequest(type, page.bearing, RotateLeft(page.bearing))]
            [] type = "rotate-right" ->
                 page' = [Moved(page, NumberJS(page.pitch).n,
                                MapBearing(RotateRight(page.bearing)))
                            EXCEPT !.requested =
                              MapRequest(type, page.bearing, RotateRight(page.bearing))]
            [] OTHER ->
                 page' = [[Moved(page, 60, 0) EXCEPT !.zoom = Str(Fixed2Whole(15))]
                            EXCEPT !.requested = MapRequest(type, Undef, Undef)]
  /\ UNCHANGED <<variant, req, server>>

\* JSON.stringify({ imageData: mapImage, pitch: Number(pitch), ... })
PageBody(mapImage) ==
  Body(mapImage,
       Camera(NumberJS(page.pitch), NumberJS(page.bearing), NumberJS(page.zoom)),
       Loc(page.lat, page.lng))

\* generateImage started by a button that is not disabled while loading
GenerateClickAnytime ==
  /\ page.mapboxLoaded
  /\ IF ~page.map
       THEN page' = [page EXCEPT !.loading = FALSE,
                                 !.error = Str("Unable to capture the map"),
                                 !.mapImage = Null,
                                 !.body = EmptyBody,
                                 !.response = EmptyResponse,
                                 !.outcome = "nocapture"]
       ELSE \E mapImage \in Captures :
              page' = [page EXCEPT !.loading = TRUE,
                                   !.error = Null,
                                   !.pc = "fetching",
                                   !.mapImage = mapImage,
                                   !.body = PageBody(mapImage),
                                   !.response = EmptyResponse,
                                   !.running = @ + 1,
                                   !.outcome = "none"]
  /\ UNCHANGED <<variant, req, server>>

\* a click on Generate: generateImage up to its fetch, or through its catch
\* and finally when there is no map to capture
GenerateClick ==
  /\ ~(page.loading \/ ~page.mapboxLoaded)
  /\ IF ~page.map
       THEN page' = [page EXCEPT !.loading = FALSE,
                                 !.error = Str("Unable to capture the map"),
                                 !.mapImage = Null,
                                 !.body = EmptyBody,
                                 !.response = EmptyResponse,
                                 !.outcome = "nocapture"]
       ELSE \E mapImage \in Captures :
              page' = [page EXCEPT !.loading = TRUE,
                                   !.error = Null,
                                   !.pc = "fetching",
                                   !.mapImage = mapImage,
                                   !.body = PageBody(mapImage),
                                   !.response = EmptyResponse,
                                   !.running = @ + 1,
                                   !.outcome = "none"]
  /\ UNCHANGED <<variant, req, server>>

\* the request of the page reaching app.post('/api/generate')
Received(b) ==
  CASE variant = "noop" -> NoopReceived(b)
    [] variant = "single" -> SingleReceived(b)
    [] OTHER -> MultiReceived(b)

PagePost ==
  /\ page.pc = "fetching"
  /\ \E r \in DOMAIN req :
       /\ Free(r)
       /\ req' = [req EXCEPT ![r] = Received(page.body)]
  /\ page' = [page EXCEPT !.pc = "waiting"]
  /\ UNCHANGED <<variant, server>>

\* a catch that also drops the image of an earlier generation
FetchRejectsClearsImage ==
  /\ page.pc = "fetching"
  /\ page' = [page EXCEPT !.pc = "idle",
                          !.error = Str("Failed to fetch"),
                          !.generatedImage = Null,
                          !.loading = FALSE,
                          !.running = @ - 1,
                          !.outcome = "rejected"]
  /\ UNCHANGED <<variant, req, server>>

\* fetch rejecting: the server cannot be reached
FetchRejects ==
  /\ page.pc = "fetching"
  /\ page' = [page EXCEPT !.pc = "idle",
                          !.error = Str("Failed to fetch"),
                          !.loading = FALSE,
                          !.running = @ - 1,
                          !.outcome = "rejected"]
  /\ UNCHANGED <<variant, req, server>>

\* response.ok
Ok(resp) == resp.status \in 200..299

\* generateImage throwing when the parsed body says success: false
FetchResolvesChecksSuccess ==
  /\ page.pc = "waiting"
  /\ \E r \in DOMAIN req :
       /\ req[r].pc = "responded"
       /\ page' = [page EXCEPT
            !.pc = "idle",
            !.response = req[r].resp,
            !.error = IF ~Ok(req[r].resp) THEN Str("API call failed")
                      ELSE IF req[r].resp.success = Bool(FALSE)
                        THEN Str("Generation failed")
                      ELSE page.error,
            !.generatedImage =
              IF Ok(req[r].resp) /\ req[r].resp.success # Bool(FALSE)
                THEN page.mapImage ELSE page.generatedImage,
            !.loading = FALSE,
            !.running = @ - 1,
            !.outcome = IF Ok(req[r].resp) THEN "ok" ELSE "not2xx"]
  /\ UNCHANGED <<variant, req, server>>

\* fetch resolving, to the end of generateImage
FetchResolves ==
  /\ page.pc = "waiting"
  /\ \E r \in DOMAIN req :
       /\ req[r].pc = "responded"
       /\ page' = [page EXCEPT
            !.pc = "idle",
            !.response = req[r].resp,
            !.error = IF Ok(req[r].resp) THEN page.error ELSE Str("API call failed"),
            !.generatedImage = IF Ok(req[r].resp) THEN page.mapImage
                               ELSE page.generatedImage,
            !.loading = FALSE,
            !.running = @ - 1,
            !.outcome = IF Ok(req[r].resp) THEN "ok" ELSE "not2xx"]
  /\ UNCHANGED <<variant, req, server>>

\* what another process listening on port 3001 answers: a page that is not
\* JSON, with a 2xx status or not
ForeignAnswers == {200, 404}

NotJsonError == "Unexpected token '<', \"<!DOCTYPE \"... is not valid JSON"

\* generateImage with setLoading(false) at the end of its try, not in a finally
FetchResolvesForeignNoFinally ==
  /\ page.pc = "fetching"
  /\ \E status \in ForeignAnswers :
       page' = [page EXCEPT
         !.pc = "idle",
         !.response = IF status \in 200..299 THEN EmptyResponse
                      ELSE [EmptyResponse EXCEPT !.status = status],
         !.error = IF status \in 200..299 THEN Str(NotJsonError)
                   ELSE Str("API call failed"),
         !.running = @ - 1,
         !.outcome = IF status \in 200..299 THEN "unparsable" ELSE "not2xx"]
  /\ UNCHANGED <<variant, req, server>>

\* fetch resolving with such an answer, to the end of generateImage:
\* response.json() rejects when the status is 2xx
FetchResolvesForeign ==
  /\ page.pc = "fetching"
  /\ \E status \in ForeignAnswers :
       page' = [page EXCEPT
         !.pc = "idle",
         !.response = IF status \in 200..299 THEN EmptyResponse
                      ELSE [EmptyResponse EXCEPT !.status = status],
         !.error = IF status \in 200..299 THEN Str(NotJsonError)
                   ELSE Str("API call failed"),
         !.loading = FALSE,
         !.running = @ - 1,
         !.outcome = IF status \in 200..299 THEN "unparsable" ELSE "not2xx"]
  /\ UNCHANGED <<variant, req, server>>

\* the preview button, rendered when there is an image
OpenPreview ==
  /\ Truthy(page.generatedImage)
  /\ page' = [page EXCEPT !.openPreview = TRUE]
  /\ UNCHANGED <<variant, req, server>>

\* the close buttons and the background of the preview, rendered while
\* openPreview && generatedImage
ClosePreview ==
  /\ page.openPreview /\ Truthy(page.generatedImage)
  /\ page' = [page EXCEPT !.openPreview = FALSE]
  /\ UNCHANGED <<variant, req, server>>

\* the image of the preview, when it is open
PreviewImage ==
  IF page.openPreview /\ Truthy(page.generatedImage) THEN page.generatedImage ELSE Null

\* link.href of downloadImage
DownloadHref == IF ~Truthy(page.generatedImage) THEN Null ELSE page.generatedImage

\* the result panel: the error, else the image, else the placeholder
PanelImage == IF Truthy(page.error) THEN Null ELSE page.generatedImage

\* the values the page renders as text
ShownTexts ==
  {page.lat, page.lng, page.zoom, page.pitch, page.bearing}
    \cup (IF Truthy(page.error) THEN {page.error} ELSE {})

Variants == {"noop", "single", "multi"}

Init ==
  /\ variant \in Variants
  /\ req = [r \in Reqs |-> IdleReq]
  /\ server = ServerState(TRUE, NoHealth, 0)
  /\ page = InitialPage

Next ==
  \E r \in Reqs :
    \/ NoopPost(r)
    \/ NoopTimeout(r)
    \/ SinglePost(r)
    \/ SingleSettle(r)
    \/ MultiPost(r)
    \/ MultiSettle(r)

Spec == Init /\ [][Next]_vars

-----------------------------------------------------------------------------
(* The server with requests in flight together and /health *)

Slots == 1..MaxConc

\* a request whose image, camera and location all differ from those of the
\* next one
BodyA == Body(Str(PngHead), Camera(Num(85), Num(330), Undef), Loc(Num(21), Num(105)))

BodyB == Body(Image(LimitLen), DefaultCamera, Loc(Str("21.0278"), Str("105.8342")))

ConcBodies ==
  { BodyA, BodyB,
    Body(Undef, DefaultCamera, NoLocation),
    Body(Image(RoundedOverLen), DefaultCamera, Loc(Num(21), Num(105))) }

InitServer ==
  /\ variant \in Variants
  /\ req = [r \in Slots |-> IdleReq]
  /\ \E key \in BOOLEAN : server = ServerState(key, NoHealth, 0)
  /\ page = InitialPage

NextServer ==
  \/ \E r \in Slots :
       \/ NoopPost(r) /\ req'[r].body \in ConcBodies
       \/ SinglePost(r) /\ req'[r].body \in ConcBodies
       \/ MultiPost(r) /\ req'[r].body \in ConcBodies
  \/ \E r \in Slots :
       \/ NoopTimeout(r)
       \/ SingleSettle(r)
       \/ MultiSettle(r)
  \/ Health

SpecServer == InitServer /\ [][NextServer]_vars

\* the timer of the no-op variant fires, and generateContent settles
SpecServerLive ==
  /\ InitServer
  /\ [][NextServer]_vars
  /\ \A r \in Slots :
       /\ WF_vars(NoopTimeout(r))
       /\ WF_vars(SingleSettle(r))
       /\ WF_vars(MultiSettle(r))

\* the page and one server behind it, the page having one request at a time
PageSlots == {1}

InitPage ==
  /\ variant \in Variants
  /\ req = [r \in PageSlots |-> IdleReq]
  /\ server = ServerState(TRUE, NoHealth, 0)
  /\ page = InitialPage

NextPage ==
  \/ ScriptLoaded
  \/ InitMapEffect
  \/ MapMove
  \/ GenerateClick
  \/ PagePost
  \/ FetchRejects
  \/ FetchResolves
  \/ FetchResolvesForeign
  \/ OpenPreview
  \/ ClosePreview
  \/ \E r \in PageSlots : NoopTimeout(r) \/ SingleSettle(r) \/ MultiSettle(r)

SpecPage == InitPage /\ [][NextPage]_vars

\* the page and its camera buttons
NextCamera ==
  \/ ScriptLoaded
  \/ InitMapEffect
  \/ MapMove
  \/ \E type \in CameraButtons : AdjustCamera(type)

SpecCamera == InitPage /\ [][NextCamera]_vars

-----------------------------------------------------------------------------
(* Vocabulary of the properties *)

Done(r) == req[r].pc = "responded"

\* imageData is missing or the empty string
ImageEmpty(b) ==
  \/ b.imageData.t = "undefined"
  \/ b.imageData.t = "string" /\ Length(b.imageData) = 0

\* the location is absent, or lacks lat, or lacks lng
LocationIncomplete(b) ==
  \/ b.location.t = "undefined"
  \/ b.location.lat.t = "undefined"
  \/ b.location.lng.t = "undefined"

\* lat and lng are both present as numbers
LocationNumeric(b) ==
  /\ b.location.t = "object"
  /\ b.location.lat.t = "number"
  /\ b.location.lng.t = "number"

\* the invariant of GenerationRequest: imageData is a non-empty string and
\* location.lat and location.lng are present and numeric
WellFormed(b) == ~ImageEmpty(b) /\ b.imageData.t = "string" /\ LocationNumeric(b)

\* len * 0.75 bytes is strictly more than SizeLimitMB
OverLimit(b) == 3 * Length(b.imageData) > 4 * SizeLimitMB * BytesPerMB

\* "data:image/png;base64," followed by the request's imageData
DataUrlOf(b) == LongStr(DataUrlPrefix \o b.imageData.s, b.imageData.n)

LocationRejected(r) ==
  req[r].resp.status = 400 /\ req[r].resp.error = Str(InvalidLocationError)

-----------------------------------------------------------------------------
(* C1 *)

\* C1: in every variant, a request whose imageData is missing or empty is
\* answered at once with 400, with an error field and with neither an image
\* nor a description field.
C1_MissingImageIs400 ==
  \A r \in Reqs :
    (req[r].pc # "idle" /\ ImageEmpty(req[r].body)) =>
      /\ Done(r)
      /\ req[r].resp.status = 400
      /\ req[r].resp.error # Undef
      /\ req[r].resp.image = Undef
      /\ req[r].resp.description = Undef

\* an empty-string imageData with a complete location has been answered 400
C1_Witness ==
  \E r \in Reqs :
    /\ Done(r)
    /\ req[r].body.imageData = Str("")
    /\ LocationNumeric(req[r].body)
    /\ req[r].resp.status = 400
    /\ req[r].resp.error = Str(NoImageError)

-----------------------------------------------------------------------------
(* C2 *)

\* C2: in every variant, a request with non-empty imageData whose location
\* is absent or lacks lat or lng is answered 400, and a request whose lat and
\* lng are both numbers (0 included) is not rejected by the location check.
C2_LocationChecked ==
  \A r \in Reqs :
    (Done(r) /\ ~ImageEmpty(req[r].body)) =>
      /\ LocationIncomplete(req[r].body) => req[r].resp.status = 400
      /\ LocationNumeric(req[r].body) => ~LocationRejected(r)

-----------------------------------------------------------------------------
(* C3 *)

\* the request got past the image check and the location check
PassedValidation(r) ==
  /\ req[r].pc # "idle"
  /\ ~ImageEmpty(req[r].body)
  /\ ~(req[r].resp.status = 400
         /\ req[r].resp.error \in {Str(NoImageError), Str(InvalidLocationError)})

\* C3: in the no-op and single-provider variants, a request that passes
\* validation and whose estimate len * 0.75 bytes is strictly above 15 MB is
\* answered 400 with a size and a limit field, and the backend is not called.
C3_OverLimitIs400 ==
  \A r \in Reqs :
    (variant \in {"noop", "single"} /\ PassedValidation(r) /\ OverLimit(req[r].body)) =>
      /\ req[r].calls = 0
      /\ Done(r) =>
           /\ req[r].resp.status = 400
           /\ req[r].resp.size # Undef
           /\ req[r].resp.limit # Undef

-----------------------------------------------------------------------------
(* C4 *)

\* C4: in every variant, the response to a valid request (a well-formed
\* request that is not rejected with 400) has image equal to
\* "data:image/png;base64," followed by the request's imageData, whether
\* the backend succeeded or failed.
C4_ImagePassedThrough ==
  \A r \in Reqs :
    (Done(r) /\ WellFormed(req[r].body) /\ req[r].resp.status # 400) =>
      req[r].resp.image = DataUrlOf(req[r].body)

-----------------------------------------------------------------------------
(* C5 *)

BackendFailed(r) == req[r].outcome.kind \in {"throw", "noresponse"}

\* C5: in the single-provider and multi-provider variants, when the backend
\* call fails, the response is 200 with success false, the original image as
\* a data URL and a description containing the failure message.
C5_FailureIs200 ==
  \A r \in Reqs :
    (variant \in {"single", "multi"} /\ Done(r) /\ BackendFailed(r)) =>
      /\ req[r].resp.status = 200
      /\ req[r].resp.success = Bool(FALSE)
      /\ req[r].resp.image = DataUrlOf(req[r].body)
      /\ req[r].resp.description.t = "string"
      /\ Contains(req[r].resp.description.s, req[r].outcome.text)

-----------------------------------------------------------------------------
(* C6 *)

\* C6: no request causes more than one backend call on any path, and the
\* response to a valid request (well-formed, not rejected with 400) comes
\* after exactly one call in the provider variants and after none in the
\* no-op variant.
C6_OneCallNoRetry ==
  \A r \in Reqs :
    /\ req[r].calls <= 1
    /\ (Done(r) /\ WellFormed(req[r].body) /\ req[r].resp.status # 400) =>
         req[r].calls = IF variant = "noop" THEN 0 ELSE 1

\* a failed backend call has been answered, after one call
C6_Witness ==
  \E r \in Reqs :
    /\ Done(r)
    /\ variant \in {"single", "multi"}
    /\ WellFormed(req[r].body)
    /\ req[r].outcome.kind = "throw"
    /\ req[r].calls = 1

-----------------------------------------------------------------------------
(* C7 *)

\* a numeric string as the number it denotes, any other value as it is
AsNumber(v) == IF v.t = "string" /\ IsDigits(v.s) THEN Num(DigitsToNat(v.s)) ELSE v

\* C7: metadata.camera of every 200 response holds the request's pitch,
\* bearing and zoom as numbers: a numeric string of the request is the
\* corresponding number in the response.
C7_CameraNumeric ==
  \A r \in Reqs :
    (Done(r) /\ req[r].resp.status = 200) =>
      req[r].resp.camera =
        Camera(AsNumber(req[r].body.pitch), AsNumber(req[r].body.bearing),
               AsNumber(req[r].body.zoom))

-----------------------------------------------------------------------------
(* C8 *)

LocationNonNumeric(b) ==
  /\ b.location.t = "object"
  /\ \/ b.location.lat.t \notin {"undefined", "number"}
     \/ b.location.lng.t \notin {"undefined", "number"}

\* C8: a request with non-empty imageData whose lat or lng is present but
\* not a number is answered 400; it causes no backend call and no 500.
C8_NonNumericLocationIs400 ==
  \A r \in Reqs :
    (req[r].pc # "idle" /\ ~ImageEmpty(req[r].body) /\ LocationNonNumeric(req[r].body)) =>
      /\ req[r].calls = 0
      /\ Done(r) => req[r].resp.status = 400

-----------------------------------------------------------------------------
(* C9 *)

\* C9: the description of every 200 response is a non-empty string.
C9_DescriptionNonEmpty ==
  \A r \in Reqs :
    (Done(r) /\ req[r].resp.status = 200) =>
      /\ req[r].resp.description.t = "string"
      /\ Length(req[r].resp.description) > 0

-----------------------------------------------------------------------------
(* C10 *)

SizeRejected(r) == req[r].resp.size # Undef \/ req[r].resp.limit # Undef

\* C10: the first failing check decides the rejection.  In every variant a
\* request with missing imageData and an incomplete location is rejected
\* with the missing-image error; in the no-op and single-provider variants
\* a request with an incomplete location and an oversized image is rejected
\* with the location error, never with the size error.
C10_FirstFailingCheck ==
  \A r \in Reqs :
    Done(r) =>
      /\ (ImageEmpty(req[r].body) /\ LocationIncomplete(req[r].body)) =>
           /\ req[r].resp.status = 400
           /\ req[r].resp.error = Str(NoImageError)
      /\ (/\ variant \in {"noop", "single"}
          /\ ~ImageEmpty(req[r].body)
          /\ LocationIncomplete(req[r].body)
          /\ OverLimit(req[r].body)) =>
           /\ LocationRejected(r)
           /\ ~SizeRejected(r)

\* the single-provider variant has rejected an oversized image that came
\* without a location, with the location error
C10_Witness ==
  \E r \in Reqs :
    /\ variant = "single"
    /\ Done(r)
    /\ req[r].body.imageData = Image(RoundedOverLen)
    /\ req[r].body.location = NoLocation
    /\ LocationRejected(r)

-----------------------------------------------------------------------------
(* C11 *)

\* C11: in the no-op variant, every request with non-empty imageData and a
\* location whose lat and lng are defined is answered 200 with success true
\* and a description that begins with one of the five templates filled in
\* with the request's values; the backend is not called and the answer is
\* never a 500.
C11_NoopAlwaysSucceeds ==
  \A r \in Reqs :
    (/\ variant = "noop"
     /\ req[r].pc # "idle"
     /\ ~ImageEmpty(req[r].body)
     /\ ~LocationIncomplete(req[r].body)) =>
      /\ req[r].calls = 0
      /\ Done(r) =>
           /\ req[r].resp.status = 200
           /\ req[r].resp.success = Bool(TRUE)
           /\ \E k \in 1..5 :
                StartsWith(req[r].resp.description.s, NoopDescriptions(req[r].body)[k])

-----------------------------------------------------------------------------
(* C15 *)

\* a failure that is neither a validation, a size nor a backend failure: the
\* multi-provider variant reading location.lat of an absent location, the
\* no-op variant calling toFixed on a lat or lng that is not a number
UnexpectedFailure(r) ==
  \/ /\ variant = "multi"
     /\ ~ImageEmpty(req[r].body)
     /\ req[r].body.location.t = "undefined"
  \/ /\ variant = "noop"
     /\ ~ImageEmpty(req[r].body)
     /\ ~LocationIncomplete(req[r].body)
     /\ ~LocationNumeric(req[r].body)

\* C15: such a failure is answered 500 with an error field holding the
\* failure message; it is never answered 200.
C15_UnexpectedIs500 ==
  \A r \in Reqs :
    (Done(r) /\ UnexpectedFailure(r)) =>
      /\ req[r].resp.status = 500
      /\ req[r].resp.error.t = "string"
      /\ \/ Contains(req[r].resp.error.s, "Cannot read properties of undefined")
         \/ Contains(req[r].resp.error.s, "is not a function")
      /\ req[r].resp.success = Undef
      /\ req[r].resp.image = Undef

\* the no-op variant has answered a string lat with 500
C15_Witness ==
  \E r \in Reqs :
    /\ variant = "noop"
    /\ Done(r)
    /\ req[r].body.location.lat.t = "string"
    /\ req[r].resp.status = 500
    /\ req[r].resp.error = Str("location.lat.toFixed is not a function")

-----------------------------------------------------------------------------
(* C17 *)

\* C17: a request answered 400 has caused no backend call, and a backend
\* call is made only for a request that has passed every check of its
\* variant.
C17_NoCallBeforeChecks ==
  \A r \in Reqs :
    /\ (Done(r) /\ req[r].resp.status = 400) => req[r].calls = 0
    /\ req[r].calls > 0 =>
         /\ ~ImageEmpty(req[r].body)
         /\ variant = "single" =>
              /\ ~SingleLocationInvalid(req[r].body.location)
              /\ Length(req[r].body.imageData) < RoundedOverLen
         /\ variant # "noop"

\* the single-provider variant has rejected an oversized image without a call
C17_Witness ==
  \E r \in Reqs :
    /\ variant = "single"
    /\ Done(r)
    /\ req[r].resp.status = 400
    /\ SizeRejected(r)
    /\ req[r].calls = 0

-----------------------------------------------------------------------------
(* C19 *)

\* C19: in the single-provider variant, a request that passes validation
\* and whose estimate len * 0.75 bytes is at most 15 MB is not rejected by
\* the size check and goes on to the backend call.
C19_AtLimitAccepted ==
  \A r \in Reqs :
    (variant = "single" /\ PassedValidation(r) /\ ~OverLimit(req[r].body)) =>
      /\ ~SizeRejected(r)
      /\ req[r].calls = 1

\* an image whose estimate is exactly 15 MB has gone on to the backend call
C19_Witness ==
  \E r \in Reqs :
    /\ variant = "single"
    /\ req[r].body.imageData = Image(LimitLen)
    /\ req[r].pc = "awaiting"
    /\ req[r].calls = 1

-----------------------------------------------------------------------------
(* C12 *)

\* what a handler answers to body b when its backend call settles as o (the
\* no-op variant: with any of its five templates)
AnswersTo(b, o) ==
  CASE variant = "noop" ->
         IF ImageMissing(b.imageData) THEN {BadRequest(NoImageError)}
         ELSE IF NoopLocationInvalid(b.location) THEN {BadRequest(InvalidLocationError)}
         ELSE {NoopFinish(b, k) : k \in 1..5}
    [] variant = "single" ->
         IF ImageMissing(b.imageData) THEN {BadRequest(NoImageError)}
         ELSE IF SingleLocationInvalid(b.location) THEN {BadRequest(InvalidLocationError)}
         ELSE IF TooLarge(SizeInMB(b.imageData)) THEN {SizeRejection(b)}
         ELSE {SingleFinish(b, o)}
    [] OTHER ->
         IF ImageMissing(b.imageData) THEN {BadRequest(NoImageError)}
         ELSE IF b.location.t = "undefined"
           THEN {ServerError("Cannot read properties of undefined (reading 'lat')", "")}
         ELSE {MultiFinish(b, o)}

\* C12: with requests in flight together, in any interleaving, the response
\* to a request is the one its own body and its own backend outcome
\* determine; its image, location and camera are those of its own body.
C12_OwnBodyOnly ==
  \A r \in DOMAIN req :
    Done(r) =>
      /\ req[r].resp \in AnswersTo(req[r].body, req[r].outcome)
      /\ req[r].resp.image \in {Undef, DataUrlOf(req[r].body)}
      /\ req[r].resp.location \in {NoLocation, req[r].body.location}
      /\ req[r].resp.camera \in
           {NoCamera, Camera(req[r].body.pitch, req[r].body.bearing, req[r].body.zoom)}

\* a request has been answered 200 while another one, with another image,
\* location and camera, was waiting for its backend call
C12_Witness ==
  \E r, s \in DOMAIN req :
    /\ r # s
    /\ Done(r)
    /\ req[r].resp.status = 200
    /\ req[r].body = BodyA
    /\ req[s].pc = "awaiting"
    /\ req[s].body = BodyB

-----------------------------------------------------------------------------
(* C16 *)

\* C16: /health answers 200 with status 'ok' whether or not the API key is
\* set, the single-provider variant reporting the presence of the key as a
\* boolean, and a /health request changes neither a request in flight, nor
\* a response, nor the number of backend calls, nor the environment.
C16_HealthHasNoEffect ==
  /\ [](server.healthCalls > 0 =>
          /\ server.health.status = 200
          /\ server.health.state = "ok"
          /\ variant = "single" => server.health.geminiConfigured = Bool(server.apiKey))
  /\ [][server'.healthCalls # server.healthCalls =>
          /\ req' = req
          /\ server'.apiKey = server.apiKey
          /\ variant' = variant]_vars

\* /health has answered without the key, while a request was waiting for
\* its backend call
C16_Witness ==
  /\ variant = "single"
  /\ ~server.apiKey
  /\ server.healthCalls > 0
  /\ server.health.geminiConfigured = Bool(FALSE)
  /\ \E r \in DOMAIN req : req[r].pc = "awaiting"

-----------------------------------------------------------------------------
(* C18 *)

\* C18: given that the timer fires and the backend call settles, every
\* request is eventually answered, and no request is answered twice.
C18_ExactlyOneResponse ==
  /\ [](\A r \in DOMAIN req :
          /\ req[r].sent <= 1
          /\ Done(r) <=> req[r].sent = 1)
  /\ \A r \in Slots : (req[r].pc # "idle") ~> (Done(r) /\ req[r].sent = 1)

\* a request whose backend call failed has been answered once
C18_Witness ==
  \E r \in DOMAIN req :
    /\ Done(r)
    /\ req[r].outcome.kind = "noresponse"
    /\ req[r].sent = 1
    /\ req[r].resp.status \in {200, 500}

-----------------------------------------------------------------------------
(* C13 *)

\* the page has sent a request that no response has come back for yet
InFlight == page.pc \in {"fetching", "waiting"}

\* str is the prefix followed by a text in which the prefix does not occur
PrefixedOnce(str) ==
  /\ StartsWith(str, DataUrlPrefix)
  /\ ~Contains(SubSeq(str, Len(DataUrlPrefix) + 1, Len(str)), DataUrlPrefix)

\* C13: the imageData of every body generateImage sends is bare base64,
\* without the data-URL prefix, and the image of a 200 response to it
\* carries the prefix exactly once.
C13_BareBase64Sent ==
  /\ InFlight => ~StartsWith(page.body.imageData.s, DataUrlPrefix)
  /\ (page.pc = "idle" /\ page.response.status = 200) =>
       PrefixedOnce(page.response.image.s)

-----------------------------------------------------------------------------
(* C14 *)

\* C14: after a 200, the image of the result panel is the image field of
\* the response and the description of the response is among the texts the
\* page shows.
C14_ShowsResponse ==
  (page.pc = "idle" /\ page.response.status = 200) =>
    /\ PanelImage = page.response.image
    /\ page.response.description \in ShownTexts

-----------------------------------------------------------------------------
(* C20 *)

IsNumber(v) == v.t = "number" /\ v # NaN

\* C20: whatever moves of the map came before the click, the body
\* generateImage sends has numbers for location.lat, location.lng, pitch,
\* bearing and zoom.
C20_BodyNumeric ==
  InFlight =>
    /\ IsNumber(page.body.location.lat)
    /\ IsNumber(page.body.location.lng)
    /\ IsNumber(page.body.pitch)
    /\ IsNumber(page.body.bearing)
    /\ IsNumber(page.body.zoom)

-----------------------------------------------------------------------------
(* C21 *)

\* the branches generateImage can end in
Failures == {"nocapture", "rejected", "not2xx", "unparsable"}

Settled == page.pc = "idle" /\ page.outcome \in Failures \cup {"ok"}

\* C21: loading is true exactly while a request of generateImage has not
\* settled: it is set when generateImage starts its request and is false
\* once generateImage has ended, in whichever branch.
C21_LoadingWhileInFlight ==
  /\ [](page.loading <=> InFlight)
  /\ [](Settled => ~page.loading /\ page.running = 0)
  /\ [][page.loading /\ ~page'.loading => page'.outcome \in Failures \cup {"ok"}]_vars

\* generateImage has ended on a body that was not JSON, and loading is false
C21_Witness ==
  /\ Settled
  /\ page.outcome = "unparsable"
  /\ page.error = Str(NotJsonError)
  /\ ~page.loading

-----------------------------------------------------------------------------
(* C22 *)

\* C22: at most one generateImage is running and at most one request of
\* the page is with the server; none runs and no request exists before the
\* map library has loaded.
C22_OneInFlight ==
  /\ page.running <= 1
  /\ page.running = 1 <=> InFlight
  /\ InFlight => page.mapboxLoaded
  /\ \A r \in DOMAIN req :
       req[r].pc \in {"delay", "awaiting"} => page.pc = "waiting" /\ page.mapboxLoaded

\* a second generation is in flight after the first one has settled
C22_Witness ==
  /\ page.pc = "waiting"
  /\ page.running = 1
  /\ Truthy(page.generatedImage)
  /\ \E r \in DOMAIN req : req[r].pc \in {"delay", "awaiting"}

-----------------------------------------------------------------------------
(* C23 *)

\* C23: once generateImage has ended, error is non-null exactly when there
\* was nothing to capture, the fetch rejected, the status was not 2xx or the
\* body was not JSON; a 200 with success: false leaves error null and sets
\* generatedImage to the capture, which the result panel then shows.
C23_ErrorExactly ==
  Settled =>
    /\ page.error # Null <=> page.outcome \in Failures
    /\ page.outcome = "nocapture" => page.error = Str("Unable to capture the map")
    /\ page.outcome = "not2xx" =>
         ~Ok(page.response) /\ page.error = Str("API call failed")
    /\ Ok(page.response) => page.outcome = "ok" /\ page.error = Null
    /\ (page.response.status = 200 /\ page.response.success = Bool(FALSE)) =>
         /\ page.error = Null
         /\ page.generatedImage = page.mapImage
         /\ PanelImage = page.mapImage

\* the single-provider server has answered 200 with success: false and the
\* page shows the capture without an error
C23_Witness ==
  /\ Settled
  /\ variant = "single"
  /\ page.response.status = 200
  /\ page.response.success = Bool(FALSE)
  /\ page.error = Null
  /\ PanelImage = page.mapImage

-----------------------------------------------------------------------------
(* C24 *)

StepButtons == {"pitch-up", "pitch-down", "rotate-left", "rotate-right"}

\* the step the button stands for, taken from the number displayed
Intended(type, from) ==
  CASE type = "pitch-up" ->
         Num(IF NumberJS(from).n + PitchStep < MaxPitch
               THEN NumberJS(from).n + PitchStep ELSE MaxPitch)
    [] type = "pitch-down" ->
         Num(IF NumberJS(from).n - PitchStep > 0
               THEN NumberJS(from).n - PitchStep ELSE 0)
    [] type = "rotate-left" -> Num(NumberJS(from).n - BearingStep)
    [] OTHER -> Num(NumberJS(from).n + BearingStep)

\* C24: in every reachable state of the page, after moves of the map too,
\* what adjustCamera passes to the map is the displayed value changed by
\* the step of the button, as a number.
C24_IntendedStep ==
  page.requested.type \in StepButtons =>
    page.requested.value = Intended(page.requested.type, page.requested.from)

-----------------------------------------------------------------------------
(* C25 *)

\* C25: every pitch adjustCamera passes to the map is a number from 0 to
\* 85, whatever moves and clicks came before, and while there is no map
\* adjustCamera calls nothing and changes nothing.
C25_PitchInRange ==
  /\ page.requested.type \in {"pitch-up", "pitch-down"} =>
       /\ IsNumber(page.requested.value)
       /\ page.requested.value.n \in 0..MaxPitch
  /\ ~page.map =>
       /\ page.requested = NoRequest
       /\ page.pitch = InitialPage.pitch
       /\ page.bearing = InitialPage.bearing

\* 'pitch-up' was clicked with the pitch displayed as the string "60" and
\* the map was asked for 85
C25_Witness ==
  /\ page.requested.type = "pitch-up"
  /\ page.requested.from = Str("60")
  /\ page.requested.value = Num(MaxPitch)

-----------------------------------------------------------------------------
(* C26 *)

\* C26: a map is constructed at most once, and only with the library
\* loaded; generateImage without a map ends with the error 'Unable to
\* capture the map', and no request exists that was sent without a map.
C26_MapCreatedOnce ==
  /\ page.mapsCreated <= 1
  /\ page.mapsCreated = 1 <=> page.map
  /\ page.map => page.mapboxLoaded
  /\ InFlight => page.map
  /\ (\E r \in DOMAIN req : req[r].pc # "idle") => page.map
  /\ page.outcome = "nocapture" =>
       /\ page.error = Str("Unable to capture the map")
       /\ page.pc = "idle"
       /\ page.body = EmptyBody
       /\ ~page.loading

\* Generate was clicked before there was a map, and no request has been sent
C26_Witness ==
  /\ page.outcome = "nocapture"
  /\ page.mapboxLoaded
  /\ ~page.map
  /\ page.mapsCreated = 0
  /\ \A r \in DOMAIN req : req[r].pc = "idle"

-----------------------------------------------------------------------------
(* C27 *)

\* C27: a generateImage that fails leaves generatedImage as it was, and
\* generatedImage never becomes null again; with an error and an earlier
\* image the panel shows the error while download and preview still have
\* the image; a non-null error becomes null only by generateImage starting.
C27_FailureKeepsImage ==
  /\ [][page'.outcome \in Failures => page'.generatedImage = page.generatedImage]_vars
  /\ [][page.generatedImage # Null => page'.generatedImage # Null]_vars
  /\ [][(page.error # Null /\ page'.error = Null) =>
          ~page.loading /\ page'.loading /\ page'.pc = "fetching"]_vars
  /\ [](page.error # Null /\ page.generatedImage # Null =>
          /\ PanelImage = Null
          /\ DownloadHref = page.generatedImage
          /\ page.openPreview => PreviewImage = page.generatedImage)

\* a generation has failed after an earlier one succeeded, with the preview
\* open on the earlier image
C27_Witness ==
  /\ Settled
  /\ page.outcome = "not2xx"
  /\ page.error = Str("API call failed")
  /\ Truthy(page.generatedImage)
  /\ page.generatedImage # page.mapImage
  /\ page.openPreview

====
